---- MODULE Spec2Model ----
(***************************************************************************)
(* Model of yandex_neurosupport: the recursive field masker                *)
(* (utils.mask_response_fields) and the request path of the HTTP client    *)
(* (client.BaseClient._request).                                           *)
(*                                                                         *)
(* A Python str is a sequence of one-character strings.  A tree node is a  *)
(* record with a single field that names its runtime type:                 *)
(*   [s |-> str]            a str                                          *)
(*   [o |-> name]           an opaque scalar (int, bool, None)             *)
(*   [l |-> <<node, ...>>]  a list                                         *)
(*   [d |-> <<[k |-> str, v |-> node], ...>>]  a dict, in insertion order  *)
(*   [exc |-> kind]         not a value: the call raised `kind`            *)
(*                                                                         *)
(* Three specifications share the variables:                               *)
(*   Spec        one use of the masker on every input up to MaxSize        *)
(*   SpecClient  construction of the client and its requests               *)
(*   SpecHeap    two calls of the masker interleaved over one object store *)
(***************************************************************************)
EXTENDS Integers, Sequences, FiniteSets, TLC

VARIABLES
    \* one use of the masker: the arguments, where the caller stands, what the
    \* call gave and what masking that again gave
    data, keys_to_mask, values_to_mask, placeholder, pc, result, again,
    \* the HTTP client: the installed requests release, the client object and
    \* the request in progress
    requests_release, client, req,
    \* concurrent calls of the masker on objects of one interpreter: the
    \* object store (a dict or list has an address, a str or scalar is its
    \* value) and every call's local state
    heap, thr

masker_vars == <<data, keys_to_mask, values_to_mask, placeholder, pc, result, again>>
client_vars == <<requests_release, client, req>>
heap_vars == <<heap, thr>>
vars == <<masker_vars, client_vars, heap_vars>>

(***************************************************************************)
(* Bounds of the explored inputs.                                          *)
(***************************************************************************)
MaxSize == 4
\* the sizes of the inputs of two concurrent calls, taken together
MaxPairSize == 5

\* characters of the strings in the data tree, of dict keys and of the
\* configured keys and substrings
Chars == {"a", "A", "b"}

\* the code points the escapes \a, \b and \0 of a replacement template denote
BEL == "<BEL>"
BS == "<BS>"
NUL == "<NUL>"

(***************************************************************************)
(* str.lower() and re.IGNORECASE on the model's characters.                *)
(***************************************************************************)
Lower(c) == IF c = "A" THEN "a" ELSE c

StrLower(str) == [i \in 1..Len(str) |-> Lower(str[i])]

(***************************************************************************)
(* The compiled pattern: '|'.join(re.escape(v) ...) with re.IGNORECASE is   *)
(* an ordered alternation of literals.  The engine tries the alternatives  *)
(* in order at the current position and moves right when none matches.     *)
(***************************************************************************)
MatchesAt(str, i, v) ==
    /\ i + Len(v) - 1 <= Len(str)
    /\ \A j \in 1..Len(v) : Lower(str[i + j - 1]) = Lower(v[j])

RECURSIVE FirstAlt(_, _, _, _)
FirstAlt(str, i, alts, k) ==
    IF k > Len(alts) THEN 0
    ELSE IF MatchesAt(str, i, alts[k]) THEN k
    ELSE FirstAlt(str, i, alts, k + 1)

RECURSIVE Search(_, _, _)
Search(str, from, alts) ==
    IF from > Len(str) THEN [found |-> FALSE, start |-> 0, len |-> 0]
    ELSE LET k == FirstAlt(str, from, alts, 1)
         IN IF k # 0 THEN [found |-> TRUE, start |-> from, len |-> Len(alts[k])]
            ELSE Search(str, from + 1, alts)

\* the spans (start, len) that pattern.sub replaces, left to right
RECURSIVE Spans(_, _, _)
Spans(str, from, alts) ==
    LET m == Search(str, from, alts)
    IN IF m.found THEN <<m>> \o Spans(str, m.start + m.len, alts) ELSE <<>>

(***************************************************************************)
(* The replacement argument of pattern.sub is a template: a backslash      *)
(* starts an escape.  ParseTemplate gives the template's parts, each a     *)
(* literal character or a reference to group 0, or says that the template  *)
(* is rejected (re.error, IndexError).                                     *)
(***************************************************************************)
Lit(c) == [grp |-> FALSE, c |-> c]
Group0 == [grp |-> TRUE, c |-> ""]
BadTemplate == [ok |-> FALSE, parts |-> <<>>]

AsciiLetters == {"a", "A", "b", "g"}
Digits == {"0"}
Escapes(c) == IF c = "a" THEN BEL ELSE IF c = "b" THEN BS ELSE c
HasEscape(c) == c \in {"a", "b", "\\"}

Cons(part, rest) ==
    IF rest.ok THEN [ok |-> TRUE, parts |-> <<part>> \o rest.parts] ELSE BadTemplate

RECURSIVE ParseFrom(_, _)
ParseFrom(p, i) ==
    IF i > Len(p) THEN [ok |-> TRUE, parts |-> <<>>]
    ELSE IF p[i] # "\\" THEN Cons(Lit(p[i]), ParseFrom(p, i + 1))
    ELSE IF i = Len(p) THEN BadTemplate                 \* bad escape (end of pattern)
    ELSE LET c == p[i + 1] IN
      IF c = "g" THEN
        IF i + 2 > Len(p) \/ p[i + 2] # "<" THEN BadTemplate      \* missing <
        ELSE LET close == {j \in (i + 3)..Len(p) : p[j] = ">"} IN
          IF close = {} THEN BadTemplate                \* missing >, unterminated name
          ELSE LET j == CHOOSE x \in close : \A y \in close : x <= y
                   name == SubSeq(p, i + 3, j - 1)
               IN IF name = <<>> THEN BadTemplate       \* missing group name
                  ELSE IF \A n \in 1..Len(name) : name[n] \in Digits
                       \* int(name) = 0: the pattern has no groups but group 0
                       THEN Cons(Group0, ParseFrom(p, j + 1))
                       ELSE BadTemplate                 \* unknown or malformed group name
      ELSE IF c = "0" THEN
        \* octal escape: up to two more octal digits
        LET n1 == IF i + 2 <= Len(p) /\ p[i + 2] \in Digits THEN 1 ELSE 0
            n2 == IF n1 = 1 /\ i + 3 <= Len(p) /\ p[i + 3] \in Digits THEN 1 ELSE 0
        IN Cons(Lit(NUL), ParseFrom(p, i + 2 + n1 + n2))
      ELSE IF HasEscape(c) THEN Cons(Lit(Escapes(c)), ParseFrom(p, i + 2))
      ELSE IF c \in AsciiLetters THEN BadTemplate       \* bad escape \c
      ELSE Cons(Lit("\\"), Cons(Lit(c), ParseFrom(p, i + 2)))

ParseTemplate(p) == ParseFrom(p, 1)

RECURSIVE Expand(_, _)
Expand(parts, matched) ==
    IF parts = <<>> THEN <<>>
    ELSE (IF Head(parts).grp THEN matched ELSE <<Head(parts).c>>)
         \o Expand(Tail(parts), matched)

RECURSIVE SubFrom(_, _, _, _)
SubFrom(str, pos, alts, parts) ==
    LET m == Search(str, pos, alts)
    IN IF ~m.found THEN SubSeq(str, pos, Len(str))
       ELSE SubSeq(str, pos, m.start - 1)
            \o Expand(parts, SubSeq(str, m.start, m.start + m.len - 1))
            \o SubFrom(str, m.start + m.len, alts, parts)

\* value_mask_regex.sub(placeholder, item)
RegexSub(alts, repl, str) ==
    LET t == ParseTemplate(repl)
    IN IF t.ok THEN [s |-> SubFrom(str, 1, alts, t.parts)] ELSE [exc |-> "re.error"]

(***************************************************************************)
(* mask_response_fields                                                    *)
(***************************************************************************)
IsDict(item) == "d" \in DOMAIN item
IsList(item) == "l" \in DOMAIN item
IsStr(item) == "s" \in DOMAIN item
IsOpaque(item) == "o" \in DOMAIN item
IsExc(item) == "exc" \in DOMAIN item

\* an optional list argument: None, or a list of str
None == [none |-> TRUE, list |-> <<>>]
Some(list) == [none |-> FALSE, list |-> list]

\* `x or []`
OrEmpty(opt) == IF opt.none THEN <<>> ELSE opt.list

\* {k.lower() for k in keys_to_mask}
LowerKeys(keys) == {StrLower(keys[i]) : i \in 1..Len(keys)}

\* [v for v in values_to_mask if v]
IsTruthy(v) == v # <<>>
FilteredValues(values) == SelectSeq(values, IsTruthy)

\* value_mask_regex: None, or the compiled alternation
LongerFirst(x, y) == Len(x) > Len(y)
CompileValues_LongestFirst(values) ==
    LET filtered_values == SortSeq(FilteredValues(values), LongerFirst)
    IN [compiled |-> filtered_values # <<>>, alts |-> filtered_values]
CompileValues_IfAnyValue(values) ==
    [compiled |-> values # <<>>, alts |-> FilteredValues(values)]
CompileValues(values) ==
    LET filtered_values == FilteredValues(values)
    IN [compiled |-> filtered_values # <<>>, alts |-> filtered_values]

\* an exception raised for one item of a container leaves the container's
\* frame: the first one in iteration order is the one the caller sees
FirstExc(items) ==
    LET bad == {i \in 1..Len(items) : IsExc(items[i])}
    IN items[CHOOSE i \in bad : \A j \in bad : i <= j]

\* `k.lower() in lower_keys_to_mask`
KeyIsMasked_CaseSensitive(k, lower_keys_to_mask) == k \in lower_keys_to_mask
KeyIsMasked(k, lower_keys_to_mask) == StrLower(k) \in lower_keys_to_mask

\* `new_dict[k] = ...`: the entry keeps the key as it is
NewEntry_LowerKey(k, v) == [k |-> StrLower(k), v |-> v]
NewEntry(k, v) == [k |-> k, v |-> v]

\* `for sub_item in item`: every element of the list, in order
IsFalsy(item) ==
    \/ IsStr(item) /\ item.s = <<>>
    \/ IsList(item) /\ item.l = <<>>
    \/ IsDict(item) /\ item.d = <<>>
    \/ IsOpaque(item) /\ item.o = "None"
IsNotFalsy(item) == ~IsFalsy(item)
IterList_IfTruthy(list) == SelectSeq(list, IsNotFalsy)
IterList(list) == list

RECURSIVE mask_recursive(_, _, _, _)
mask_recursive(item, lower_keys_to_mask, value_mask_regex, ph) ==
    IF IsDict(item) THEN
        LET new_values == [i \in 1..Len(item.d) |->
                IF KeyIsMasked(item.d[i].k, lower_keys_to_mask)
                THEN [s |-> ph]
                ELSE mask_recursive(item.d[i].v, lower_keys_to_mask, value_mask_regex, ph)]
        IN IF \E i \in 1..Len(item.d) : IsExc(new_values[i])
           THEN FirstExc(new_values)
           ELSE [d |-> [i \in 1..Len(item.d) |-> NewEntry(item.d[i].k, new_values[i])]]
    ELSE IF IsList(item) THEN
        LET sub_items == IterList(item.l)
            new_items == [i \in 1..Len(sub_items) |->
                mask_recursive(sub_items[i], lower_keys_to_mask, value_mask_regex, ph)]
        IN IF \E i \in 1..Len(sub_items) : IsExc(new_items[i])
           THEN FirstExc(new_items)
           ELSE [l |-> new_items]
    ELSE IF IsStr(item) THEN
        IF value_mask_regex.compiled
        THEN RegexSub(value_mask_regex.alts, ph, item.s)
        ELSE item
    ELSE item

mask_response_fields(d, keys, values, ph) ==
    mask_recursive(d, LowerKeys(OrEmpty(keys)), CompileValues(OrEmpty(values)), ph)

(***************************************************************************)
(* The inputs explored: every tree up to MaxSize, where a node counts 1,   *)
(* a character of a str value 1 and a dict entry 1 more than its value.    *)
(***************************************************************************)
Opaques == {[o |-> "5"], [o |-> "None"]}
KeyNames == {<<"a">>, <<"A">>, <<"b">>}

\* the keys of a dict are distinct
HasDistinctKeys(items) ==
    \A i, j \in 1..Len(items) : items[i].k = items[j].k => i = j

RECURSIVE TreesOfSize(_), ListItems(_), DictItems(_)
TreesOfSize(n) ==
    {[s |-> str] : str \in [1..(n - 1) -> Chars]}
    \cup (IF n = 1 THEN Opaques ELSE {})
    \cup {[l |-> items] : items \in ListItems(n - 1)}
    \cup {[d |-> items] : items \in {it \in DictItems(n - 1) : HasDistinctKeys(it)}}

ListItems(m) ==
    IF m = 0 THEN {<<>>}
    ELSE UNION {{<<x>> \o rest : x \in TreesOfSize(k), rest \in ListItems(m - k)} : k \in 1..m}

DictItems(m) ==
    IF m = 0 THEN {<<>>}
    ELSE UNION {{<<[k |-> key, v |-> x]>> \o rest :
                    key \in KeyNames, x \in TreesOfSize(j - 1), rest \in DictItems(m - j)}
                : j \in 2..m}

Trees == UNION {TreesOfSize(n) : n \in 1..MaxSize}

Stars == <<"*", "*", "*", "*", "*", "*">>

KeyConfigs ==
    {None, Some(<<>>), Some(<< <<"a">> >>), Some(<< <<"A">> >>), Some(<< <<"b">>, <<"A">> >>)}

ValueConfigs ==
    {None, Some(<<>>), Some(<< <<>> >>), Some(<< <<>>, <<"b">> >>),
     Some(<< <<"a">> >>), Some(<< <<"A">> >>), Some(<< <<"a", "b">> >>),
     Some(<< <<"a">>, <<"a", "b">> >>), Some(<< <<"a", "b">>, <<"a">> >>),
     Some(<< <<"b">>, <<"a", "a">> >>)}

Placeholders ==
    {Stars, <<>>, <<"a">>, <<"a", "a">>,
     <<"\\">>, <<"\\", "\\">>, <<"\\", "a">>, <<"\\", "A">>,
     <<"\\", "g", "<", "0", ">">>}

NoResult == [none |-> TRUE]

\* a requests.Session object: `id` is its identity, 0 while there is none
NoSession == [created |-> FALSE, id |-> 0, headers |-> {}]
\* `given` is the constructor's arguments, `sessions` the number of Session
\* objects the client has created
NoGiven == [auth_token |-> "", folder_id |-> ""]
NoClient == [built |-> "no", given |-> NoGiven, auth_token |-> "", folder_id |-> "",
             sessions |-> 0, session |-> NoSession]
\* `headers` is the headers argument of the call of _request, `sent` the
\* session that sent the request and the headers it sent
NotSent == [session |-> 0, headers |-> {}]
NoRequest == [pc |-> "idle", name |-> "", headers |-> {}, sent |-> NotSent,
              response |-> [status |-> 0, content |-> ""],
              outcome |-> [kind |-> "none", exc |-> ""]]

ClientUnused ==
    /\ requests_release = "2.27"
    /\ client = NoClient
    /\ req = NoRequest

HeapUnused ==
    /\ heap = <<>>
    /\ thr = <<>>

Init ==
    /\ ClientUnused
    /\ HeapUnused
    /\ data \in Trees
    /\ keys_to_mask \in KeyConfigs
    /\ values_to_mask \in ValueConfigs
    /\ placeholder \in Placeholders
    /\ pc = "start"
    /\ result = NoResult
    /\ again = NoResult

\* masked = mask_response_fields(data, keys_to_mask, values_to_mask, placeholder)
Call ==
    /\ pc = "start"
    /\ result' = mask_response_fields(data, keys_to_mask, values_to_mask, placeholder)
    /\ pc' = IF IsExc(result') THEN "raised" ELSE "returned"
    /\ UNCHANGED <<data, keys_to_mask, values_to_mask, placeholder, again>>
    /\ UNCHANGED <<client_vars, heap_vars>>

\* mask_response_fields(masked, keys_to_mask, values_to_mask, placeholder)
CallAgain ==
    /\ pc = "returned"
    /\ again' = mask_response_fields(result, keys_to_mask, values_to_mask, placeholder)
    /\ pc' = "done"
    /\ UNCHANGED <<data, keys_to_mask, values_to_mask, placeholder, result>>
    /\ UNCHANGED <<client_vars, heap_vars>>

Next == Call \/ CallAgain

Spec == Init /\ [][Next]_vars

(***************************************************************************)
(* The HTTP client.  A header is a pair <<name, value>>; None and the      *)
(* empty string are the falsy values of a str argument.                    *)
(***************************************************************************)
MaskerUnused ==
    /\ data = [o |-> "None"]
    /\ keys_to_mask = None
    /\ values_to_mask = None
    /\ placeholder = Stars
    /\ pc = "unused"
    /\ result = NoResult
    /\ again = NoResult

\* the requests releases setup.py admits differ in what response.json()
\* raises for a body that is not JSON: a RequestException from 2.27 on, a
\* plain ValueError before
RequestsReleases == {"2.25", "2.27"}

AuthTokens == {"None", "", "t1", "t2"}
FolderIds == {"None", "", "f1"}
IsFalsyStr(x) == x \in {"None", ""}

\* the public methods, all of which send through _request
Methods ==
    {"check_api", "create_or_update_index", "get_index_info", "get_indexes_full",
     "get_documents_from_index", "get_generative_answer", "switch_index_version",
     "delete_documents_from_index", "delete_index"}

\* what session.request does: the transport fails with one of requests'
\* exceptions, or a response arrives
TransportErrors == {"ConnectionError", "Timeout"}
Responses == [status : {200, 401, 500}, content : {"", "json", "not json"}]

InitClient ==
    /\ MaskerUnused
    /\ HeapUnused
    /\ requests_release \in RequestsReleases
    /\ client = NoClient
    /\ req = NoRequest

\* YandexCloudNeuroSupportClient.__init__, up to the call of the base
\* initialiser: empty credentials raise, others are stored
Construct(auth_token, folder_id) ==
    /\ client.built = "no"
    /\ LET given == [auth_token |-> auth_token, folder_id |-> folder_id] IN
       client' = IF IsFalsyStr(auth_token) \/ IsFalsyStr(folder_id)
                 THEN [client EXCEPT !.built = "AuthenticationError", !.given = given]
                 ELSE [client EXCEPT !.built = "base_init", !.given = given,
                                     !.auth_token = auth_token, !.folder_id = folder_id]
    /\ UNCHANGED <<requests_release, req>>
    /\ UNCHANGED <<masker_vars, heap_vars>>

\* BaseClient.__init__: self.session = requests.Session()
BaseInit ==
    /\ client.built = "base_init"
    /\ client' = [client EXCEPT
            !.built = "configure_auth",
            !.sessions = @ + 1,
            !.session = [created |-> TRUE, id |-> client.sessions + 1, headers |-> {}]]
    /\ UNCHANGED <<requests_release, req>>
    /\ UNCHANGED <<masker_vars, heap_vars>>

\* _configure_auth: self.session.headers.update({'Authorization': ...})
ConfigureAuth ==
    /\ client.built = "configure_auth"
    /\ client' = [client EXCEPT
            !.built = "ready",
            !.session.headers =
                {h \in @ : h[1] # "Authorization"}
                \cup {<<"Authorization", <<"Bearer ", client.auth_token>> >>}]
    /\ UNCHANGED <<requests_release, req>>
    /\ UNCHANGED <<masker_vars, heap_vars>>

\* the headers argument a public method gives _request: check_api alone
\* gives one, {'x-folder-id': self.folder_id}
RequestHeaders(name) ==
    IF name = "check_api" THEN {<<"x-folder-id", <<client.folder_id>> >>} ELSE {}

\* a public method builds its endpoint and arguments and calls _request
CallMethod(name) ==
    /\ client.built = "ready"
    /\ req.pc = "idle"
    /\ req' = [NoRequest EXCEPT !.pc = "session.request", !.name = name,
                                !.headers = RequestHeaders(name)]
    /\ UNCHANGED <<requests_release, client>>
    /\ UNCHANGED <<masker_vars, heap_vars>>

\* what the caller of the public method gets
Raises(exc) == [kind |-> "raised", exc |-> exc]
Returns == [kind |-> "returned", exc |-> ""]

\* the object _request sends through: self.session
SendingSession_Fresh(c) == [created |-> TRUE, id |-> c.sessions + 1, headers |-> {}]
SendingSession(c) == c.session

\* the headers of the request a session sends: the session's headers and
\* the call's, the call's winning where both name a header
SentHeaders(session, headers) ==
    {h \in session.headers : \A r \in headers : r[1] # h[1]} \cup headers

\* response = self.session.request(method, url, **kwargs), before the try
\* statement: an exception raised here leaves _request as it is, and
\* check_api's `except APIError: raise` lets it pass too
SessionRequest ==
    /\ req.pc = "session.request"
    /\ LET session == SendingSession(client)
           sent == [session |-> session.id,
                    headers |-> SentHeaders(session, req.headers)]
       IN \/ \E exc \in TransportErrors :
               req' = [req EXCEPT !.pc = "left", !.sent = sent, !.outcome = Raises(exc)]
          \/ \E response \in Responses :
               req' = [req EXCEPT !.pc = "raise_for_status", !.sent = sent,
                                  !.response = response]
    /\ UNCHANGED <<requests_release, client>>
    /\ UNCHANGED <<masker_vars, heap_vars>>

\* response.raise_for_status() inside the try: an HTTPError is caught and
\* raised again as APIError
RaiseForStatus ==
    /\ req.pc = "raise_for_status"
    /\ req' = IF req.response.status >= 400
              THEN [req EXCEPT !.pc = "left", !.outcome = Raises("APIError")]
              ELSE [req EXCEPT !.pc = "body"]
    /\ UNCHANGED <<requests_release, client>>
    /\ UNCHANGED <<masker_vars, heap_vars>>

\* body = response.json() if response.content else None, and the return;
\* what json() raises is a RequestException or not with the release
ReadBody ==
    /\ req.pc = "body"
    /\ req' = [req EXCEPT
            !.pc = "left",
            !.outcome =
                IF req.response.content = "not json"
                THEN IF requests_release = "2.27"
                     THEN Raises("APIError") ELSE Raises("ValueError")
                ELSE Returns]
    /\ UNCHANGED <<requests_release, client>>
    /\ UNCHANGED <<masker_vars, heap_vars>>

\* the caller goes on to its next call
NextCall ==
    /\ req.pc = "left"
    /\ req' = NoRequest
    /\ UNCHANGED <<requests_release, client>>
    /\ UNCHANGED <<masker_vars, heap_vars>>

NextClient ==
    \/ \E auth_token \in AuthTokens, folder_id \in FolderIds : Construct(auth_token, folder_id)
    \/ BaseInit
    \/ ConfigureAuth
    \/ \E name \in Methods : CallMethod(name)
    \/ SessionRequest
    \/ RaiseForStatus
    \/ ReadBody
    \/ NextCall

SpecClient == InitClient /\ [][NextClient]_vars

\* C9: every failure of a request made through _request, an HTTP error
\* status or a failure of the transport, reaches the caller as an APIError:
\* no other kind of exception leaves _request or a public method.
C9_OnlyAPIErrorEscapes ==
    req.outcome.kind = "raised" => req.outcome.exc = "APIError"

\* the values a set of headers gives the Authorization header
AuthorizationOf(headers) == {h[2] : h \in {x \in headers : x[1] = "Authorization"}}

Bearer(auth_token) == <<"Bearer ", auth_token>>

EmptyCredentials == IsFalsyStr(client.given.auth_token) \/ IsFalsyStr(client.given.folder_id)

\* C11: construction settles authentication before any request.  With an
\* empty or None auth_token or folder_id the constructor raises
\* AuthenticationError with no session created and no header set, and no
\* request is ever made.  Otherwise the client has created exactly one
\* session when the constructor returns, that session carries
\* Authorization = 'Bearer ' + auth_token and nothing else for that header,
\* no request is made before that, and every request is sent by that same
\* session with that header.
C11_AuthSettledBeforeRequests ==
    /\ (client.built # "no" /\ EmptyCredentials) =>
            /\ client.built = "AuthenticationError"
            /\ client.sessions = 0
            /\ ~client.session.created
            /\ client.session.headers = {}
            /\ req = NoRequest
    /\ (client.built # "no" /\ ~EmptyCredentials) => client.built # "AuthenticationError"
    /\ client.built = "ready" =>
            /\ client.sessions = 1
            /\ client.session.created
            /\ AuthorizationOf(client.session.headers) = {Bearer(client.given.auth_token)}
    /\ req.pc # "idle" => client.built = "ready"
    /\ req.sent # NotSent =>
            /\ req.sent.session = client.session.id
            /\ AuthorizationOf(req.sent.headers) = {Bearer(client.given.auth_token)}

\* a request of check_api, which gives headers of its own, was sent by a
\* client built with the second token
C11_Witness ==
    /\ req.sent # NotSent
    /\ req.name = "check_api"
    /\ client.given.auth_token = "t2"
    /\ <<"x-folder-id", <<"f1">> >> \in req.sent.headers

(***************************************************************************)
(* Concurrent calls.  A reference is [addr |-> n] for a dict or a list of  *)
(* the store, or the value itself for a str or an opaque scalar, which are *)
(* immutable.  heap[n] is [kind |-> "dict", items |-> <<[k, v], ...>>] or  *)
(* [kind |-> "list", items |-> <<ref, ...>>].                              *)
(***************************************************************************)
Threads == {"t1", "t2"}

IsAddr(ref) == "addr" \in DOMAIN ref

\* the tree a reference stands for
RECURSIVE TreeAt(_, _)
TreeAt(h, ref) ==
    IF ~IsAddr(ref) THEN ref
    ELSE LET obj == h[ref.addr] IN
         IF obj.kind = "dict"
         THEN [d |-> [i \in 1..Len(obj.items) |->
                        [k |-> obj.items[i].k, v |-> TreeAt(h, obj.items[i].v)]]]
         ELSE [l |-> [i \in 1..Len(obj.items) |-> TreeAt(h, obj.items[i])]]

\* the caller's objects: a tree put in the store, children first
RECURSIVE Store(_, _), StoreAll(_, _)
Store(tree, h) ==
    IF IsDict(tree)
    THEN LET r == StoreAll([i \in 1..Len(tree.d) |-> tree.d[i].v], h)
         IN [heap |-> Append(r.heap,
                        [kind |-> "dict",
                         items |-> [i \in 1..Len(tree.d) |-> [k |-> tree.d[i].k, v |-> r.refs[i]]]]),
             ref |-> [addr |-> Len(r.heap) + 1]]
    ELSE IF IsList(tree)
    THEN LET r == StoreAll(tree.l, h)
         IN [heap |-> Append(r.heap, [kind |-> "list", items |-> r.refs]),
             ref |-> [addr |-> Len(r.heap) + 1]]
    ELSE [heap |-> h, ref |-> tree]

StoreAll(trees, h) ==
    IF trees = <<>> THEN [heap |-> h, refs |-> <<>>]
    ELSE LET first == Store(Head(trees), h)
             rest == StoreAll(Tail(trees), first.heap)
         IN [heap |-> rest.heap, refs |-> <<first.ref>> \o rest.refs]

\* an optional list of str argument put in the store
StoreOpt(opt, h) ==
    IF opt.none THEN [heap |-> h, ref |-> [o |-> "None"]]
    ELSE Store([l |-> [i \in 1..Len(opt.list) |-> [s |-> opt.list[i]]]], h)

\* the optional list of str a reference stands for
OptAt(h, ref) ==
    IF ~IsAddr(ref) THEN None
    ELSE Some([i \in 1..Len(h[ref.addr].items) |-> h[ref.addr].items[i].s])

RECURSIVE Size(_), SumSizes(_)
Size(tree) ==
    IF IsDict(tree) THEN 1 + Len(tree.d) + SumSizes([i \in 1..Len(tree.d) |-> tree.d[i].v])
    ELSE IF IsList(tree) THEN 1 + SumSizes(tree.l)
    ELSE IF IsStr(tree) THEN 1 + Len(tree.s)
    ELSE 1
SumSizes(trees) == IF trees = <<>> THEN 0 ELSE Size(Head(trees)) + SumSizes(Tail(trees))

\* the inputs of the concurrent calls: trees over one character, two keys
\* and None
RECURSIVE IsPlain(_)
IsPlain(tree) ==
    IF IsDict(tree)
    THEN \A i \in 1..Len(tree.d) : tree.d[i].k \in {<<"a">>, <<"b">>} /\ IsPlain(tree.d[i].v)
    ELSE IF IsList(tree) THEN \A i \in 1..Len(tree.l) : IsPlain(tree.l[i])
    ELSE IF IsStr(tree) THEN \A i \in 1..Len(tree.s) : tree.s[i] = "a"
    ELSE tree.o = "None"

PlainTrees == {tree \in UNION {TreesOfSize(n) : n \in 1..(MaxPairSize - 1)} : IsPlain(tree)}

HeapConfigs ==
    {[keys |-> None, values |-> None, ph |-> Stars],
     [keys |-> Some(<< <<"a">> >>), values |-> Some(<< <<"a">> >>), ph |-> Stars],
     [keys |-> Some(<< <<"a">> >>), values |-> Some(<< <<"a">> >>), ph |-> <<"\\">>]}

NoFrame == [mode |-> "none", v |-> [o |-> "None"]]

\* a call about to start: its arguments, and nothing done yet
NewCall(tree_ref, keys_ref, values_ref, ph, h) ==
    [pc |-> "call",
     data |-> tree_ref, keys_to_mask |-> keys_ref, values_to_mask |-> values_ref,
     placeholder |-> ph,
     lower_keys_to_mask |-> {}, value_mask_regex |-> [compiled |-> FALSE, alts |-> <<>>],
     stack |-> <<>>, cur |-> NoFrame, result |-> NoResult,
     \* what the arguments were when the call started
     data0 |-> TreeAt(h, tree_ref), keys0 |-> OptAt(h, keys_ref),
     values0 |-> OptAt(h, values_ref)]

InitHeap ==
    /\ MaskerUnused
    /\ ClientUnused
    /\ \E tree1, tree2 \in PlainTrees : \E cfg \in HeapConfigs :
        /\ Size(tree1) + Size(tree2) <= MaxPairSize
        \* the two calls run the same code: the larger input goes to t1
        /\ Size(tree2) <= Size(tree1)
        /\ LET d1 == Store(tree1, <<>>)
               k1 == StoreOpt(cfg.keys, d1.heap)
               v1 == StoreOpt(cfg.values, k1.heap)
               d2 == Store(tree2, v1.heap)
               k2 == StoreOpt(cfg.keys, d2.heap)
               v2 == StoreOpt(cfg.values, k2.heap)
           IN /\ heap = v2.heap
              /\ thr = [t \in Threads |->
                    IF t = "t1" THEN NewCall(d1.ref, k1.ref, v1.ref, cfg.ph, v2.heap)
                    ELSE NewCall(d2.ref, k2.ref, v2.ref, cfg.ph, v2.heap)]

\* `new_dict = {}` and the list a comprehension builds: a new object
NewContainer_SameObject(h, src, kind) == [heap |-> h, addr |-> src]
NewContainer(h, src, kind) ==
    [heap |-> Append(h, [kind |-> kind, items |-> <<>>]), addr |-> Len(h) + 1]

\* `new_dict[k] = v`, and the append of a list comprehension
StoreItem(obj, k, v) ==
    IF obj.kind = "list" THEN [obj EXCEPT !.items = Append(@, v)]
    ELSE IF \E i \in 1..Len(obj.items) : obj.items[i].k = k
         THEN [obj EXCEPT !.items = [i \in 1..Len(@) |->
                                        IF @[i].k = k THEN NewEntry(k, v) ELSE @[i]]]
         ELSE [obj EXCEPT !.items = Append(@, NewEntry(k, v))]

\* lines 69-78: the lower-cased key set and the matcher, local to the call
Prologue(t) ==
    /\ thr[t].pc = "call"
    /\ thr' = [thr EXCEPT
            ![t].pc = "run",
            ![t].lower_keys_to_mask = LowerKeys(OrEmpty(OptAt(heap, thr[t].keys_to_mask))),
            ![t].value_mask_regex = CompileValues(OrEmpty(OptAt(heap, thr[t].values_to_mask))),
            ![t].cur = [mode |-> "eval", v |-> thr[t].data]]
    /\ UNCHANGED heap
    /\ UNCHANGED <<masker_vars, client_vars>>

\* _mask_recursive(item) is entered: a dict or a list gets its new
\* container and a frame, a str is substituted, anything else is returned
Enter(t) ==
    /\ thr[t].pc = "run" /\ thr[t].cur.mode = "eval"
    /\ LET item == thr[t].cur.v IN
       IF IsAddr(item) THEN
           LET new == NewContainer(heap, item.addr, heap[item.addr].kind)
           IN /\ heap' = new.heap
              /\ thr' = [thr EXCEPT
                    ![t].stack = Append(@, [src |-> item.addr, new |-> new.addr, i |-> 1]),
                    ![t].cur = [mode |-> "iter", v |-> item]]
       ELSE IF IsStr(item) /\ thr[t].value_mask_regex.compiled THEN
           LET r == RegexSub(thr[t].value_mask_regex.alts, thr[t].placeholder, item.s)
           IN /\ thr' = IF IsExc(r)
                        THEN [thr EXCEPT ![t].pc = "raised", ![t].stack = <<>>,
                                         ![t].cur = NoFrame, ![t].result = r]
                        ELSE [thr EXCEPT ![t].cur = [mode |-> "ret", v |-> r]]
              /\ UNCHANGED heap
       ELSE /\ thr' = [thr EXCEPT ![t].cur = [mode |-> "ret", v |-> item]]
            /\ UNCHANGED heap
    /\ UNCHANGED <<masker_vars, client_vars>>

\* one turn of `for k, v in item.items()` or of the comprehension: the
\* container is finished, or the entry is masked by key, or its value is
\* masked recursively
Iterate(t) ==
    /\ thr[t].pc = "run" /\ thr[t].cur.mode = "iter"
    /\ LET f == thr[t].stack[Len(thr[t].stack)]
           src == heap[f.src]
       IN IF f.i > Len(src.items) THEN
              /\ thr' = [thr EXCEPT ![t].stack = SubSeq(@, 1, Len(@) - 1),
                                    ![t].cur = [mode |-> "ret", v |-> [addr |-> f.new]]]
              /\ UNCHANGED heap
          ELSE IF src.kind = "dict" /\ KeyIsMasked(src.items[f.i].k, thr[t].lower_keys_to_mask) THEN
              /\ heap' = [heap EXCEPT ![f.new] =
                            StoreItem(@, src.items[f.i].k, [s |-> thr[t].placeholder])]
              /\ thr' = [thr EXCEPT ![t].stack[Len(thr[t].stack)].i = f.i + 1]
          ELSE
              /\ thr' = [thr EXCEPT ![t].cur =
                            [mode |-> "eval",
                             v |-> IF src.kind = "dict" THEN src.items[f.i].v ELSE src.items[f.i]]]
              /\ UNCHANGED heap
    /\ UNCHANGED <<masker_vars, client_vars>>

\* _mask_recursive returns: to mask_response_fields' caller, or into the
\* container of the frame below
Return(t) ==
    /\ thr[t].pc = "run" /\ thr[t].cur.mode = "ret"
    /\ IF thr[t].stack = <<>> THEN
           /\ thr' = [thr EXCEPT ![t].pc = "returned", ![t].cur = NoFrame,
                                 ![t].result = thr[t].cur.v]
           /\ UNCHANGED heap
       ELSE LET f == thr[t].stack[Len(thr[t].stack)]
                src == heap[f.src]
            IN /\ heap' = [heap EXCEPT ![f.new] =
                            StoreItem(@, IF src.kind = "dict" THEN src.items[f.i].k ELSE <<>>,
                                      thr[t].cur.v)]
               /\ thr' = [thr EXCEPT ![t].stack[Len(thr[t].stack)].i = f.i + 1,
                                     ![t].cur = [mode |-> "iter", v |-> [addr |-> f.src]]]
    /\ UNCHANGED <<masker_vars, client_vars>>

NextHeap == \E t \in Threads : Prologue(t) \/ Enter(t) \/ Iterate(t) \/ Return(t)

SpecHeap == InitHeap /\ [][NextHeap]_vars

\* the dicts and lists a reference reaches
RECURSIVE Containers(_, _)
Containers(h, ref) ==
    IF ~IsAddr(ref) THEN {}
    ELSE {ref.addr} \cup
         UNION {Containers(h, IF h[ref.addr].kind = "dict" THEN h[ref.addr].items[i].v
                                                            ELSE h[ref.addr].items[i])
                : i \in 1..Len(h[ref.addr].items)}

ArgumentContainers ==
    UNION {Containers(heap, thr[t].data) \cup Containers(heap, thr[t].keys_to_mask)
           \cup Containers(heap, thr[t].values_to_mask) : t \in Threads}

\* C6: mask_response_fields never mutates its arguments: during and after
\* any interleaving of concurrent calls on independent inputs, the input
\* tree, keys_to_mask and values_to_mask of every call are what they were,
\* and every mapping and sequence of an output is a newly built container,
\* none of them a container of an input (or of the other call's output); the
\* output is the value the masker gives for the input.
C6_ArgumentsNotMutated ==
    \A t \in DOMAIN thr :
        /\ TreeAt(heap, thr[t].data) = thr[t].data0
        /\ OptAt(heap, thr[t].keys_to_mask) = thr[t].keys0
        /\ OptAt(heap, thr[t].values_to_mask) = thr[t].values0
        /\ thr[t].pc = "returned" =>
              /\ Containers(heap, thr[t].result) \cap ArgumentContainers = {}
              /\ \A u \in DOMAIN thr : (u # t /\ thr[u].pc = "returned") =>
                    Containers(heap, thr[t].result) \cap Containers(heap, thr[u].result) = {}
              /\ TreeAt(heap, thr[t].result) =
                    mask_response_fields(thr[t].data0, thr[t].keys0, thr[t].values0,
                                         thr[t].placeholder)

\* both calls returned, their new containers allocated in turns: one of the
\* second call's lies between two of the first's, and the first call masked
\* an entry by its key
C6_Witness ==
    /\ \A t \in DOMAIN thr : thr[t].pc = "returned"
    /\ DOMAIN thr = Threads
    /\ \E a1, a2 \in Containers(heap, thr["t1"].result) :
          \E b \in Containers(heap, thr["t2"].result) : a1 < b /\ b < a2
    /\ TreeAt(heap, thr["t1"].result) # thr["t1"].data0

(***************************************************************************)
(* What the claims speak of, said without the code's own helpers.          *)
(***************************************************************************)
Returned == pc \in {"returned", "done"}
Called == pc # "start"

\* the configured keys, and the configured substrings that are not empty
ListedKeys == IF keys_to_mask.none THEN {} ELSE {keys_to_mask.list[i] : i \in DOMAIN keys_to_mask.list}
ListedValues == IF values_to_mask.none THEN <<>> ELSE values_to_mask.list
Secrets == {ListedValues[i] : i \in {j \in DOMAIN ListedValues : Len(ListedValues[j]) > 0}}

SameIgnoringCase(x, y) ==
    Len(x) = Len(y) /\ \A i \in 1..Len(x) : Lower(x[i]) = Lower(y[i])
MaskedKey(k) == \E key \in ListedKeys : SameIgnoringCase(k, key)

\* str has an occurrence of v, compared case-insensitively
Contains(str, v) ==
    \E i \in 1..(Len(str) - Len(v) + 1) : SameIgnoringCase(SubSeq(str, i, i + Len(v) - 1), v)
HasSecret(str) == \E v \in Secrets : Contains(str, v)

\* the tree with every key-masked value replaced by None
RECURSIVE Prune(_)
Prune(item) ==
    IF IsDict(item)
    THEN [d |-> [i \in 1..Len(item.d) |->
            [k |-> item.d[i].k,
             v |-> IF MaskedKey(item.d[i].k) THEN [o |-> "None"] ELSE Prune(item.d[i].v)]]]
    ELSE IF IsList(item) THEN [l |-> [i \in 1..Len(item.l) |-> Prune(item.l[i])]]
    ELSE item

RECURSIVE KeyMaskedIsPlaceholder(_, _)
KeyMaskedIsPlaceholder(in, out) ==
    IF IsDict(in)
    THEN /\ IsDict(out) /\ Len(out.d) = Len(in.d)
         /\ \A i \in 1..Len(in.d) :
                IF MaskedKey(in.d[i].k)
                THEN out.d[i].v = [s |-> placeholder]
                ELSE KeyMaskedIsPlaceholder(in.d[i].v, out.d[i].v)
    ELSE IF IsList(in)
    THEN /\ IsList(out) /\ Len(out.l) = Len(in.l)
         /\ \A i \in 1..Len(in.l) : KeyMaskedIsPlaceholder(in.l[i], out.l[i])
    ELSE TRUE

\* C1: in every mapping the masker reaches, the value of an entry whose key
\* equals a configured key ignoring case is exactly the placeholder in the
\* output, whatever the value was; the value's subtree is never visited, so
\* the outcome of the call (the result, or the exception) is the one the
\* call has with that subtree replaced by None.
C1_KeyMaskReplacesWholeValue ==
    Called =>
        /\ result = mask_response_fields(Prune(data), keys_to_mask, values_to_mask, placeholder)
        /\ Returned => KeyMaskedIsPlaceholder(data, result)

\* a mapping with a key-masked entry, the key in another case than the
\* configured one, whose value holds a configured substring, was masked
C1_Witness ==
    /\ Returned /\ IsDict(data) /\ placeholder = Stars
    /\ \E i \in 1..Len(data.d) :
          /\ MaskedKey(data.d[i].k) /\ data.d[i].k \notin ListedKeys
          /\ IsStr(data.d[i].v) /\ HasSecret(data.d[i].v.s)
          /\ result.d[i].v = [s |-> placeholder]


(***************************************************************************)
(* The replacement the claims describe: the placeholder put, character for *)
(* character, in the place of each span.                                   *)
(***************************************************************************)
SecretsInOrder == SelectSeq(ListedValues, IsTruthy)

OccursAt(str, i, v) ==
    /\ i + Len(v) - 1 <= Len(str)
    /\ SameIgnoringCase(SubSeq(str, i, i + Len(v) - 1), v)

RECURSIVE Assemble(_, _, _, _)
Assemble(str, pos, spans, ph) ==
    IF spans = <<>> THEN SubSeq(str, pos, Len(str))
    ELSE SubSeq(str, pos, Head(spans).start - 1) \o ph
         \o Assemble(str, Head(spans).start + Head(spans).len, Tail(spans), ph)

LiteralReplace(str) == Assemble(str, 1, Spans(str, 1, SecretsInOrder), placeholder)

RECURSIVE StringsReplaced(_, _)
StringsReplaced(in, out) ==
    IF IsDict(in)
    THEN /\ IsDict(out) /\ Len(out.d) = Len(in.d)
         /\ \A i \in 1..Len(in.d) :
                MaskedKey(in.d[i].k) \/ StringsReplaced(in.d[i].v, out.d[i].v)
    ELSE IF IsList(in)
    THEN /\ IsList(out) /\ Len(out.l) = Len(in.l)
         /\ \A i \in 1..Len(in.l) : StringsReplaced(in.l[i], out.l[i])
    ELSE IF IsStr(in) THEN IsStr(out) /\ out.s = LiteralReplace(in.s)
    ELSE TRUE

\* C2: with at least one non-empty configured substring, every string
\* scalar outside key-masked entries comes out as the input string with each
\* non-overlapping occurrence, found left to right ignoring case, replaced
\* by the placeholder and every other character kept.
C2_OccurrencesReplacedByPlaceholder ==
    (Called /\ Secrets # {}) => StringsReplaced(data, result)

\* C7: the call raises for no well-formed input, whatever the placeholder
\* holds, and a substring mask that fires inserts the placeholder character
\* for character.
C7_NeverRaises ==
    Called =>
        /\ ~IsExc(result)
        /\ (IsStr(data) /\ Secrets # {}) => result = [s |-> LiteralReplace(data.s)]

RECURSIVE NoSecretLeft(_)
NoSecretLeft(out) ==
    IF IsDict(out) THEN \A i \in 1..Len(out.d) : NoSecretLeft(out.d[i].v)
    ELSE IF IsList(out) THEN \A i \in 1..Len(out.l) : NoSecretLeft(out.l[i])
    ELSE IF IsStr(out) THEN ~HasSecret(out.s)
    ELSE TRUE

PlaceholderApartFromSecrets ==
    /\ placeholder # <<>>
    /\ \A v \in Secrets : \A i \in 1..Len(placeholder) : \A j \in 1..Len(v) :
            Lower(placeholder[i]) # Lower(v[j])

\* C10: when the placeholder is not empty and shares no character, ignoring
\* case, with a non-empty configured substring, no string scalar of the
\* output contains a configured substring (mapping keys apart).
C10_NoSecretSurvives ==
    (Returned /\ PlaceholderApartFromSecrets) => NoSecretLeft(result)

\* C3 as stated: masking the output again always gives the output.
C3_Idempotent == pc = "done" => again = result

RECURSIVE NoSecretReachable(_)
NoSecretReachable(out) ==
    IF IsDict(out)
    THEN \A i \in 1..Len(out.d) : MaskedKey(out.d[i].k) \/ NoSecretReachable(out.d[i].v)
    ELSE IF IsList(out) THEN \A i \in 1..Len(out.l) : NoSecretReachable(out.l[i])
    ELSE IF IsStr(out) THEN ~HasSecret(out.s)
    ELSE TRUE

\* C3, amended: masking the output again with the same configuration gives
\* the output whenever no string scalar of the output outside key-masked
\* entries contains, ignoring case, a non-empty configured substring.
C3_IdempotentWhenNoSecretLeft ==
    (pc = "done" /\ NoSecretReachable(result)) => again = result

\* a tree that key masking or substring masking changed was masked again
C3_Witness ==
    /\ pc = "done" /\ NoSecretReachable(result)
    /\ Secrets # {} /\ IsList(data) /\ result # data /\ again = result

RECURSIVE OnlyKeyMasked(_, _)
OnlyKeyMasked(in, out) ==
    IF IsDict(in)
    THEN /\ IsDict(out) /\ Len(out.d) = Len(in.d)
         /\ \A i \in 1..Len(in.d) :
                /\ out.d[i].k = in.d[i].k
                /\ IF MaskedKey(in.d[i].k)
                   THEN out.d[i].v = [s |-> placeholder]
                   ELSE OnlyKeyMasked(in.d[i].v, out.d[i].v)
    ELSE IF IsList(in)
    THEN /\ IsList(out) /\ Len(out.l) = Len(in.l)
         /\ \A i \in 1..Len(in.l) : OnlyKeyMasked(in.l[i], out.l[i])
    ELSE out = in

\* C4: with values_to_mask absent, empty or holding only empty entries, no
\* matcher is built: every string scalar outside key-masked entries is
\* returned unchanged and key masking still applies; with no configured
\* key either, the output equals the input.
C4_NoMatcherWithoutValues ==
    (Called /\ Secrets = {}) =>
        /\ OnlyKeyMasked(data, result)
        /\ ListedKeys = {} => result = data

\* values_to_mask holds only an empty entry, a key is configured, and a
\* string under another key came back as it was
C4_Witness ==
    /\ Returned /\ ~values_to_mask.none /\ values_to_mask.list = << <<>> >>
    /\ ListedKeys # {} /\ IsDict(data)
    /\ \E i \in 1..Len(data.d) :
          /\ ~MaskedKey(data.d[i].k)
          /\ IsStr(data.d[i].v) /\ data.d[i].v.s # <<>>
          /\ result.d[i].v = data.d[i].v

RECURSIVE SameShape(_, _)
SameShape(in, out) ==
    IF IsDict(in)
    THEN /\ IsDict(out) /\ Len(out.d) = Len(in.d)
         /\ \A i \in 1..Len(in.d) :
                /\ out.d[i].k = in.d[i].k
                /\ MaskedKey(in.d[i].k) \/ SameShape(in.d[i].v, out.d[i].v)
    ELSE IF IsList(in)
    THEN /\ IsList(out) /\ Len(out.l) = Len(in.l)
         /\ \A i \in 1..Len(in.l) :
                /\ out.l[i] = mask_response_fields(in.l[i], keys_to_mask,
                                                   values_to_mask, placeholder)
                /\ SameShape(in.l[i], out.l[i])
    ELSE IF IsStr(in) THEN IsStr(out)
    ELSE out = in

NoSecretAt(str, lo, hi) == \A i \in lo..hi : \A v \in Secrets : ~OccursAt(str, i, v)

LeftmostFirst(str, sp) ==
    /\ \A n \in 1..Len(sp) :
          LET from == IF n = 1 THEN 1 ELSE sp[n - 1].start + sp[n - 1].len
          IN /\ sp[n].start >= from
             /\ NoSecretAt(str, from, sp[n].start - 1)
             /\ \E k \in 1..Len(SecretsInOrder) :
                   /\ OccursAt(str, sp[n].start, SecretsInOrder[k])
                   /\ sp[n].len = Len(SecretsInOrder[k])
                   /\ \A e \in 1..(k - 1) : ~OccursAt(str, sp[n].start, SecretsInOrder[e])
    /\ NoSecretAt(str, IF sp = <<>> THEN 1 ELSE sp[Len(sp)].start + sp[Len(sp)].len, Len(str))

\* C8: the occurrence replaced next is the one that starts leftmost, and of
\* the configured substrings that match there the one listed first in
\* values_to_mask (empty entries removed, no reordering by length) is the
\* one consumed.
C8_LeftmostFirstListed ==
    (Called /\ IsStr(data) /\ Secrets # {}) =>
        LET sp == Spans(data.s, 1, CompileValues(OrEmpty(values_to_mask)).alts)
        IN /\ LeftmostFirst(data.s, sp)
           /\ (\A i \in 1..Len(placeholder) : placeholder[i] # "\\")
                  => result = [s |-> Assemble(data.s, 1, sp, placeholder)]

\* ['a', 'ab'] on 'ab' replaces only 'a'
C8_Witness ==
    /\ Returned /\ data = [s |-> <<"a", "b">>] /\ placeholder = Stars
    /\ values_to_mask = Some(<< <<"a">>, <<"a", "b">> >>)
    /\ result = [s |-> Stars \o <<"b">>]

====
